---- MODULE Spec2Model ----
(***************************************************************************)
(* Fraud-risk evaluation engine of frauddetectionservice                   *)
(* (src/src/frauddetectionservice/fraud_detection_server.py).              *)
(*                                                                         *)
(* Units: amounts are integers in cents (100.00 is 10000), scores are      *)
(* integers in thousandths (0.7 is 700), times are integers in seconds.    *)
(* A Python float that may be NaN is a record [nan, v].                    *)
(***************************************************************************)
EXTENDS Integers, Sequences, FiniteSets, TLC

(* ------------------------------ bounds --------------------------------- *)

\* worker threads of the gRPC thread pool that are modelled
NumThreads == 2
\* evaluations started in one behaviour of the concurrent specification
MaxEvals == 3
\* evaluations started in one behaviour of the sequential specification
SeqMaxEvals == 6
\* clock advances in one behaviour
MaxTicks == 1
\* evaluations started in one behaviour of the race specification
RaceMaxEvals == 2
\* evaluations started in one behaviour of the two-user specification
FrameMaxEvals == 2

Threads == 1..NumThreads
Users == {"test-user", "anonymous"}
\* the amounts by which time.time() advances between two steps
TickSteps == {59, 60}

(* ------------------------- program constants --------------------------- *)

max_amount_threshold == 1000000
velocity_threshold == 5
daily_limit == 5000000
VelocityWindow == 60
DailyWindow == 86400
CardWeight == 800
AmountWeight == 600
VelocityWeight == 700
FraudThreshold == 700
MaxScore == 1000
AIDefaultScore == 200
MinCardLen == 13
MaxCardLen == 19

(* ------------------------------ floats --------------------------------- *)

Fl(x) == [nan |-> FALSE, v |-> x]
NaN == [nan |-> TRUE, v |-> 0]

\* a > b and a < b on floats: every comparison with NaN is false
FGt(a, b) == ~a.nan /\ ~b.nan /\ a.v > b.v
FLt(a, b) == ~a.nan /\ ~b.nan /\ a.v < b.v
FAdd(a, b) == IF a.nan \/ b.nan THEN NaN ELSE Fl(a.v + b.v)
\* a * 0.3
FTimes03(a) == IF a.nan THEN NaN ELSE Fl((a.v * 3) \div 10)
\* Python's min(a, b) and max(a, b): the first argument unless the second
\* compares strictly smaller (greater)
PyMin(a, b) == IF FLt(b, a) THEN b ELSE a
PyMax(a, b) == IF FGt(b, a) THEN b ELSE a

(* ------------------------------ strings -------------------------------- *)

TwoDigits(n) == IF n < 10 THEN "0" \o ToString(n) ELSE ToString(n)
\* f"{x:.2f}" of an amount held in cents
Fmt2(c) == IF c < 0 THEN "-" \o ToString((-c) \div 100) \o "." \o TwoDigits((-c) % 100)
           ELSE ToString(c \div 100) \o "." \o TwoDigits(c % 100)

RECURSIVE Join(_)
\* "; ".join(reasons)
Join(reasons) == IF Len(reasons) = 0 THEN ""
                 ELSE IF Len(reasons) = 1 THEN Head(reasons)
                 ELSE Head(reasons) \o "; " \o Join(Tail(reasons))

(* --------------------------- card validation --------------------------- *)

DigitChars == {"0", "1", "2", "3", "4", "5", "6", "7", "8", "9"}
DigitVal(c) == CASE c = "0" -> 0 [] c = "1" -> 1 [] c = "2" -> 2 [] c = "3" -> 3
                 [] c = "4" -> 4 [] c = "5" -> 5 [] c = "6" -> 6 [] c = "7" -> 7
                 [] c = "8" -> 8 [] c = "9" -> 9

\* re.sub(r'\D', '', number): the digits of the number, in order
StripNonDigits(number) == SelectSeq(number, LAMBDA c: c \in DigitChars)

\* mutant: the doubling pass starts from the first digit
LuhnDigitFromLeft(card_num, i) ==
    LET d == DigitVal(card_num[i])
        doubled == i % 2 = 1
    IN IF ~doubled THEN d ELSE IF 2 * d > 9 THEN 2 * d - 9 ELSE 2 * d

\* the digit at index i (1-based) after the doubling pass of luhn_check: the
\* loop doubles indices len-2, len-4, ... (0-based), i.e. those whose distance
\* from the last digit is odd
LuhnDigit(card_num, i) ==
    LET d == DigitVal(card_num[i])
        doubled == (Len(card_num) - i) % 2 = 1
    IN IF ~doubled THEN d ELSE IF 2 * d > 9 THEN 2 * d - 9 ELSE 2 * d

RECURSIVE LuhnSum(_, _)
LuhnSum(card_num, i) == IF i = 0 THEN 0
                        ELSE LuhnDigit(card_num, i) + LuhnSum(card_num, i - 1)

luhn_check(card_num) == LuhnSum(card_num, Len(card_num)) % 10 = 0

\* datetime(exp_year, exp_month, 1) raises ValueError outside years 1..9999
DateConstructs(year) == year >= 1 /\ year <= 9999

\* exp_date < current_date, where exp_date is the first instant of the
\* expiration month and now = [year, month, first_instant]: first_instant is
\* TRUE only at 00:00:00.000000 of the first day of the month
ExpDateBeforeNow(year, month, now) ==
    \/ year < now.year
    \/ year = now.year /\ month < now.month
    \/ year = now.year /\ month = now.month /\ ~now.first_instant

\* _validate_credit_card: <<is_valid, message>>
validate_credit_card(credit_card, now) ==
    IF ~credit_card.present \/ Len(credit_card.number) = 0
    THEN <<FALSE, "Missing credit card number">>
    ELSE LET card_number == StripNonDigits(credit_card.number)
         IN IF Len(card_number) < MinCardLen \/ Len(card_number) > MaxCardLen
            THEN <<FALSE, "Invalid credit card number length">>
            ELSE IF ~luhn_check(card_number)
            THEN <<FALSE, "Invalid credit card number">>
            ELSE IF credit_card.month < 1 \/ credit_card.month > 12
            THEN <<FALSE, "Invalid expiration month">>
            ELSE IF ~DateConstructs(credit_card.year)
            THEN <<FALSE, "Invalid expiration date">>
            ELSE IF ExpDateBeforeNow(credit_card.year, credit_card.month, now)
            THEN <<FALSE, "Credit card expired">>
            ELSE <<TRUE, "Valid">>

(* ----------------------------- amount check ---------------------------- *)

suspicious_amounts == {999999, 500000, 100000}

\* mutant: the threshold itself is too high
check_amount_fraud_inclusive(amt) ==
    IF amt <= 0 THEN <<TRUE, "Invalid amount">>
    ELSE IF amt >= max_amount_threshold
    THEN <<TRUE, "Amount too high: $" \o Fmt2(amt)>>
    ELSE IF amt \in suspicious_amounts
    THEN <<TRUE, "Suspicious amount pattern: $" \o Fmt2(amt)>>
    ELSE <<FALSE, "Amount check passed">>

\* _check_amount_fraud: <<is_amount_fraud, message>>
check_amount_fraud(amt) ==
    IF amt <= 0 THEN <<TRUE, "Invalid amount">>
    ELSE IF amt > max_amount_threshold
    THEN <<TRUE, "Amount too high: $" \o Fmt2(amt)>>
    ELSE IF amt \in suspicious_amounts
    THEN <<TRUE, "Suspicious amount pattern: $" \o Fmt2(amt)>>
    ELSE <<FALSE, "Amount check passed">>

(* ---------------------------- velocity check --------------------------- *)

\* the list comprehension of _check_velocity_fraud: the events of list h
\* with current_time - ts < 60, in order
PruneKeeps(e, now) == now - e[1] < VelocityWindow
Prune(h, now) == SelectSeq(h, LAMBDA e: PruneKeeps(e, now))

RECURSIVE SumAmounts(_)
SumAmounts(h) == IF Len(h) = 0 THEN 0 ELSE Head(h)[2] + SumAmounts(Tail(h))

\* sum(amt for ts, amt in h if ts > daily_cutoff) + amount
DailySpending(h, amt, now) ==
    SumAmounts(SelectSeq(h, LAMBDA e: e[1] > now - DailyWindow)) + amt

\* mutant: the count rule fires only above the threshold
VelocityTripsAbove(recent_transactions) == recent_transactions > velocity_threshold

VelocityTrips(recent_transactions) == recent_transactions >= velocity_threshold

TooManyMsg(n) == "Too many transactions: " \o ToString(n) \o " in last minute"
DailyMsg(daily_spending) == "Daily spending limit exceeded: $" \o Fmt2(daily_spending)

\* mutant: the count rule is missing
velocity_verdict_daily_only(h, amt, now) ==
    IF DailySpending(h, amt, now) > daily_limit
    THEN <<TRUE, DailyMsg(DailySpending(h, amt, now))>>
    ELSE <<FALSE, "Velocity check passed">>

\* the part of _check_velocity_fraud after the pruned list is stored: h is
\* the list then found under the user's key: <<is_velocity_fraud, message>>
velocity_verdict(h, amt, now) ==
    IF VelocityTrips(Len(h)) THEN <<TRUE, TooManyMsg(Len(h))>>
    ELSE IF DailySpending(h, amt, now) > daily_limit
    THEN <<TRUE, DailyMsg(DailySpending(h, amt, now))>>
    ELSE <<FALSE, "Velocity check passed">>

(* ---------------------------- AI assessment ---------------------------- *)

\* what gemini_model.generate_content(prompt) does: it raises, or returns a
\* text: without "|", or "<score_part>|REASON:<reason>" where float(score_part)
\* raises ValueError (parses = FALSE) or gives score
AIResponses ==
    { [raises |-> TRUE,  pipe |-> FALSE, parses |-> FALSE, score |-> Fl(0), reason |-> ""],
      [raises |-> FALSE, pipe |-> FALSE, parses |-> FALSE, score |-> Fl(0), reason |-> ""],
      [raises |-> FALSE, pipe |-> TRUE,  parses |-> FALSE, score |-> Fl(0), reason |-> "Moderate risk transaction"],
      [raises |-> FALSE, pipe |-> TRUE,  parses |-> TRUE,  score |-> Fl(-500), reason |-> "Moderate risk transaction"],
      [raises |-> FALSE, pipe |-> TRUE,  parses |-> TRUE,  score |-> Fl(100), reason |-> "Moderate risk transaction"],
      [raises |-> FALSE, pipe |-> TRUE,  parses |-> TRUE,  score |-> Fl(1000), reason |-> "Moderate risk transaction"],
      [raises |-> FALSE, pipe |-> TRUE,  parses |-> TRUE,  score |-> Fl(1500), reason |-> "Moderate risk transaction"],
      [raises |-> FALSE, pipe |-> TRUE,  parses |-> TRUE,  score |-> NaN, reason |-> "Moderate risk transaction"] }

\* the response of a call that is never made (gemini_model is None)
NoAIResponse == [raises |-> FALSE, pipe |-> FALSE, parses |-> FALSE, score |-> Fl(0), reason |-> ""]

\* min(max(score, 0.0), 1.0)
ClampAIScore(score) == PyMin(PyMax(score, Fl(0)), Fl(MaxScore))

\* mutant: the fallbacks return the default score of an unparsed answer
get_ai_fraud_assessment_default(model, r) ==
    IF ~model \/ r.raises THEN <<Fl(AIDefaultScore), "AI assessment completed">>
    ELSE IF r.pipe /\ r.parses THEN <<ClampAIScore(r.score), r.reason>>
    ELSE <<Fl(AIDefaultScore), "AI assessment completed">>

\* _get_ai_fraud_assessment: <<ai_score, ai_reason>>
get_ai_fraud_assessment(model, r) ==
    IF ~model THEN <<Fl(0), "AI assessment not available">>
    ELSE IF r.raises THEN <<Fl(0), "AI assessment failed">>
    ELSE IF r.pipe /\ r.parses THEN <<ClampAIScore(r.score), r.reason>>
    ELSE <<Fl(AIDefaultScore), "AI assessment completed">>

\* which return statement of _get_ai_fraud_assessment is taken
AIPath(model, r) == IF ~model THEN "absent" ELSE IF r.raises THEN "raised" ELSE "returned"

(* ------------------------------ decision ------------------------------- *)

\* risk_score = min(risk_score, 1.0)
NormalizeScore(score) == PyMin(score, Fl(MaxScore))

\* mutant: the decision looks at the score only
IsFraudScoreOnly(score, reasons) == FGt(score, Fl(FraudThreshold))

\* is_fraud = risk_score > 0.7 or len(fraud_reasons) > 0
IsFraud(score, reasons) == FGt(score, Fl(FraudThreshold)) \/ Len(reasons) > 0

\* mutant: every evaluated transaction is recorded
ShouldRecordAlways(is_fraud) == TRUE

\* if not is_fraud: record the transaction
ShouldRecord(is_fraud) == ~is_fraud

\* mutant: the AI reason is always shown, after the rule reasons
BuildResponseWithAI(is_fraud, score, reasons, ai_reason) ==
    [is_fraud |-> is_fraud, risk_score |-> score,
     reason |-> Join(Append(reasons, ai_reason))]

\* the response built on the normal path
BuildResponse(is_fraud, score, reasons, ai_reason) ==
    [is_fraud |-> is_fraud, risk_score |-> score,
     reason |-> IF Len(reasons) > 0 THEN Join(reasons) ELSE ai_reason]

\* mutant: the except branch lets the transaction through
ErrorResponseOpen ==
    [is_fraud |-> FALSE, risk_score |-> Fl(0),
     reason |-> "System error - transaction blocked for safety"]

\* the response of the except branch
ErrorResponse ==
    [is_fraud |-> TRUE, risk_score |-> Fl(MaxScore),
     reason |-> "System error - transaction blocked for safety"]

(* ------------------------------ requests ------------------------------- *)

GoodNumber == <<"4","5","3","2","0","1","5","1","1","2","8","3","0","3","6","6">>
BadNumber == <<"1","2","3","4","5","6","7","8","9","0","1","2","3","4","5","6">>

\* request.credit_card; present = FALSE is a request whose credit_card is None
NoCard == [present |-> FALSE, number |-> <<>>, month |-> 0, year |-> 0]
Cards == { [present |-> TRUE, number |-> GoodNumber, month |-> 12, year |-> 2030],
           [present |-> TRUE, number |-> BadNumber, month |-> 12, year |-> 2030],
           [present |-> TRUE, number |-> GoodNumber, month |-> 1, year |-> 2020],
           NoCard }

\* request.amount; present = FALSE is a request whose amount cannot be read
NoMoney == [present |-> FALSE, units |-> 0, nanos |-> 0]
Moneys == { [present |-> TRUE, units |-> -1, nanos |-> 0],
            [present |-> TRUE, units |-> 99, nanos |-> 990000000],
            [present |-> TRUE, units |-> 1000, nanos |-> 0],
            [present |-> TRUE, units |-> 49950, nanos |-> 0],
            NoMoney }

\* float(request.amount.units + request.amount.nanos / 1e9), in cents
AmountOf(m) == m.units * 100 + m.nanos \div 10000000

\* datetime.now() as read by the card validation
Nows == { [year |-> 2026, month |-> 11, first_instant |-> FALSE],
          [year |-> 2030, month |-> 12, first_instant |-> FALSE] }

Requests == [user_id : Users, amount : Moneys, credit_card : Cards]

(* ------------------------------- state --------------------------------- *)

VARIABLES
    transaction_history,  \* self.transaction_history: user -> list of <<ts, amt>>
    gemini_model,         \* self.gemini_model is not None
    clock,                \* what time.time() returns now
    nTicks,               \* clock advances so far
    nEvals,               \* evaluations started so far
    pc,                   \* per worker: where it is in CheckFraud
    user_id,              \* per worker: locals of CheckFraud
    amount,
    has_card,
    fraud_reasons,
    risk_score,
    current_time,         \* per worker: locals of _check_velocity_fraud
    iter_list,            \* the list the comprehension iterated
    velocity,             \* <<is_velocity_fraud, velocity_message>>
    ai,                   \* <<ai_score, ai_reason>>
    ai_path,              \* the return of _get_ai_fraud_assessment that was taken
    rec_time,             \* time.time() of the recorded tuple
    stale,                \* the list object being appended to was replaced
    status_code,          \* context.set_code
    response,             \* the returned FraudCheckResponse
    max_workers,          \* workers of the thread pool that serve requests
    call                  \* a direct call of one of the check methods

vars == <<transaction_history, gemini_model, clock, nTicks, nEvals, pc, user_id,
          amount, has_card, fraud_reasons, risk_score, current_time, iter_list,
          velocity, ai, ai_path, rec_time, stale, status_code, response,
          max_workers, call>>

StartTime == 100000

NoResponse == [is_fraud |-> FALSE, risk_score |-> Fl(0), reason |-> ""]
NoVelocity == <<FALSE, "">>
NoAI == <<Fl(0), "">>
NoCall == [fn |-> "none", amount |-> 0, credit_card |-> NoCard,
           now |-> [year |-> 0, month |-> 0, first_instant |-> FALSE],
           returned |-> FALSE, result |-> <<FALSE, "">>]

\* no worker has taken a request
InitWorkers ==
    /\ nEvals = 0
    /\ pc = [t \in Threads |-> "idle"]
    /\ user_id = [t \in Threads |-> "anonymous"]
    /\ amount = [t \in Threads |-> 0]
    /\ has_card = [t \in Threads |-> FALSE]
    /\ fraud_reasons = [t \in Threads |-> <<>>]
    /\ risk_score = [t \in Threads |-> Fl(0)]
    /\ current_time = [t \in Threads |-> 0]
    /\ iter_list = [t \in Threads |-> <<>>]
    /\ velocity = [t \in Threads |-> NoVelocity]
    /\ ai = [t \in Threads |-> NoAI]
    /\ ai_path = [t \in Threads |-> "none"]
    /\ rec_time = [t \in Threads |-> 0]
    /\ stale = [t \in Threads |-> FALSE]
    /\ status_code = [t \in Threads |-> "OK"]
    /\ response = [t \in Threads |-> NoResponse]

\* the service object after __init__, with no request taken
InitService ==
    /\ transaction_history = [u \in Users |-> <<>>]
    /\ gemini_model \in BOOLEAN
    /\ clock = StartTime
    /\ nTicks = 0
    /\ InitWorkers

\* the server: every modelled worker of the pool serves requests
Init ==
    /\ InitService
    /\ max_workers = NumThreads
    /\ call = NoCall

velVars == <<current_time, iter_list, velocity>>
recVars == <<rec_time, stale>>
envVars == <<gemini_model, clock, nTicks, max_workers, call>>

(* ------------------------------ actions -------------------------------- *)

\* time passes
Tick ==
    /\ nTicks < MaxTicks
    /\ \E d \in TickSteps : clock' = clock + d
    /\ nTicks' = nTicks + 1
    /\ UNCHANGED <<transaction_history, gemini_model, nEvals, pc, user_id, amount,
                   has_card, fraud_reasons, risk_score, current_time, iter_list,
                   velocity, ai, ai_path, rec_time, stale, status_code, response,
                   max_workers, call>>

\* the except branch of CheckFraud (lines 288..298)
Fail(t) ==
    /\ status_code' = [status_code EXCEPT ![t] = "INTERNAL"]
    /\ response' = [response EXCEPT ![t] = ErrorResponse]
    /\ pc' = [pc EXCEPT ![t] = "done"]

\* fraud_reasons and risk_score after steps 1 and 2 of CheckFraud
AfterCard(card_result) ==
    IF card_result[1] THEN <<<<>>, Fl(0)>>
    ELSE <<<<card_result[2]>>, FAdd(Fl(0), Fl(CardWeight))>>
AfterAmount(acc, amount_result) ==
    IF amount_result[1]
    THEN <<Append(acc[1], amount_result[2]), FAdd(acc[2], Fl(AmountWeight))>>
    ELSE acc
\* mutant: the verdict of the velocity check is not used
AfterVelocityIgnored(reasons, score, velocity_result) == <<reasons, score>>

AfterVelocity(reasons, score, velocity_result) ==
    IF velocity_result[1]
    THEN <<Append(reasons, velocity_result[2]), FAdd(score, Fl(VelocityWeight))>>
    ELSE <<reasons, score>>

\* CheckFraud, lines 226..248: a worker takes request req; the amount is
\* extracted, the card and the amount are checked
BeginEval(t, req, now) ==
    /\ pc[t] = "idle"
    /\ nEvals' = nEvals + 1
    /\ user_id' = [user_id EXCEPT ![t] = req.user_id]
    /\ IF ~req.amount.present
       THEN /\ Fail(t)
            /\ UNCHANGED <<amount, has_card, fraud_reasons, risk_score>>
       ELSE LET amt == AmountOf(req.amount)
                acc == AfterAmount(AfterCard(validate_credit_card(req.credit_card, now)),
                                   check_amount_fraud(amt))
            IN /\ amount' = [amount EXCEPT ![t] = amt]
               /\ has_card' = [has_card EXCEPT ![t] = req.credit_card.present]
               /\ fraud_reasons' = [fraud_reasons EXCEPT ![t] = acc[1]]
               /\ risk_score' = [risk_score EXCEPT ![t] = acc[2]]
               /\ pc' = [pc EXCEPT ![t] = "velocity"]
               /\ UNCHANGED <<status_code, response>>
    /\ UNCHANGED <<transaction_history, envVars, velVars, ai, ai_path, recVars>>

\* the requests of the concurrent specification: well-formed ones, accepted
\* (99.99) or rejected by the amount rule (1000.00)
ConcRequests == {req \in Requests :
                   /\ req.amount.present /\ req.amount.units \in {99, 1000}
                   /\ req.credit_card.present /\ req.credit_card.number = GoodNumber
                   /\ req.credit_card.year = 2030}

\* any worker may take a request while others are running
Begin(t) ==
    /\ nEvals < MaxEvals
    /\ \E req \in ConcRequests, now \in Nows : BeginEval(t, req, now)

\* a request is taken only when no evaluation is running (by the first of the
\* idle workers, which are interchangeable)
SeqBegin(t) ==
    /\ nEvals < SeqMaxEvals
    /\ \A o \in Threads : pc[o] = "idle" /\ t <= o
    /\ \E req \in Requests, now \in Nows : BeginEval(t, req, now)

\* _check_velocity_fraud, lines 138..143: the clock is read and the list
\* under the user's key is iterated
VelRead(t) ==
    /\ pc[t] = "velocity"
    /\ current_time' = [current_time EXCEPT ![t] = clock]
    /\ iter_list' = [iter_list EXCEPT ![t] = transaction_history[user_id[t]]]
    /\ pc' = [pc EXCEPT ![t] = "prune"]
    /\ UNCHANGED <<transaction_history, envVars, nEvals, user_id, amount, has_card,
                   fraud_reasons, risk_score, velocity, ai, ai_path, recVars, status_code,
                   response>>

\* the writers whose list object is no longer the one under user u's key
Orphaned(t, u) == [o \in Threads |->
                     IF o # t /\ pc[o] = "record" /\ user_id[o] = u THEN TRUE ELSE stale[o]]

\* line 141: the filtered list replaces the list under the user's key
VelStore(t) ==
    /\ pc[t] = "prune"
    /\ transaction_history' = [transaction_history EXCEPT
                                 ![user_id[t]] = Prune(iter_list[t], current_time[t])]
    /\ stale' = Orphaned(t, user_id[t])
    /\ pc' = [pc EXCEPT ![t] = "count"]
    /\ UNCHANGED <<envVars, nEvals, user_id, amount, has_card, fraud_reasons,
                   risk_score, velVars, ai, ai_path, rec_time, status_code, response>>

\* lines 146..161 and 252..254: count, daily spending, verdict
VelCount(t) ==
    /\ pc[t] = "count"
    /\ LET v == velocity_verdict(transaction_history[user_id[t]], amount[t],
                                 current_time[t])
           acc == AfterVelocity(fraud_reasons[t], risk_score[t], v)
       IN /\ velocity' = [velocity EXCEPT ![t] = v]
          /\ fraud_reasons' = [fraud_reasons EXCEPT ![t] = acc[1]]
          /\ risk_score' = [risk_score EXCEPT ![t] = acc[2]]
    /\ pc' = [pc EXCEPT ![t] = "ai"]
    /\ UNCHANGED <<transaction_history, envVars, nEvals, user_id, amount, has_card,
                   current_time, iter_list, ai, ai_path, recVars, status_code, response>>

\* risk_score += ai_score * 0.3, then normalized
FinalScore(score, ai_score) == NormalizeScore(FAdd(score, FTimes03(ai_score)))

\* lines 257..276 up to the call of append: the AI assessment and the
\* decision; a rejected transaction is answered at once, an accepted one has
\* loaded the user's list and read the clock for the tuple to append
Assess(t) ==
    /\ pc[t] = "ai"
    /\ IF ~has_card[t]
       THEN /\ Fail(t)
            /\ UNCHANGED <<ai, ai_path, risk_score, recVars>>
       ELSE \E r \in IF gemini_model THEN AIResponses ELSE {NoAIResponse} :
              LET a == get_ai_fraud_assessment(gemini_model, r)
                  score == FinalScore(risk_score[t], a[1])
                  is_fraud == IsFraud(score, fraud_reasons[t])
              IN /\ ai' = [ai EXCEPT ![t] = a]
                 /\ ai_path' = [ai_path EXCEPT ![t] = AIPath(gemini_model, r)]
                 /\ risk_score' = [risk_score EXCEPT ![t] = score]
                 /\ IF ShouldRecord(is_fraud)
                    THEN /\ rec_time' = [rec_time EXCEPT ![t] = clock]
                         /\ stale' = [stale EXCEPT ![t] = FALSE]
                         /\ pc' = [pc EXCEPT ![t] = "record"]
                         /\ UNCHANGED <<status_code, response>>
                    ELSE /\ response' = [response EXCEPT ![t] =
                                BuildResponse(is_fraud, score, fraud_reasons[t], a[2])]
                         /\ pc' = [pc EXCEPT ![t] = "done"]
                         /\ UNCHANGED <<status_code, recVars>>
    /\ UNCHANGED <<transaction_history, envVars, nEvals, user_id, amount, has_card,
                   fraud_reasons, velVars>>

\* mutant: the tuple goes to the history of the default user id
RecordAnonymous(t) ==
    /\ pc[t] = "record"
    /\ transaction_history' =
          IF stale[t] THEN transaction_history
          ELSE [transaction_history EXCEPT
                  !["anonymous"] = Append(@, <<rec_time[t], amount[t]>>)]
    /\ response' = [response EXCEPT ![t] =
          BuildResponse(IsFraud(risk_score[t], fraud_reasons[t]), risk_score[t],
                        fraud_reasons[t], ai[t][2])]
    /\ pc' = [pc EXCEPT ![t] = "done"]
    /\ UNCHANGED <<envVars, nEvals, user_id, amount, has_card, fraud_reasons,
                   risk_score, velVars, ai, ai_path, recVars, status_code>>

\* line 276, the append, and lines 279..286: the tuple goes to the list
\* object that was loaded, which is the user's history unless it was replaced
Record(t) ==
    /\ pc[t] = "record"
    /\ transaction_history' =
          IF stale[t] THEN transaction_history
          ELSE [transaction_history EXCEPT
                  ![user_id[t]] = Append(@, <<rec_time[t], amount[t]>>)]
    /\ response' = [response EXCEPT ![t] =
          BuildResponse(IsFraud(risk_score[t], fraud_reasons[t]), risk_score[t],
                        fraud_reasons[t], ai[t][2])]
    /\ pc' = [pc EXCEPT ![t] = "done"]
    /\ UNCHANGED <<envVars, nEvals, user_id, amount, has_card, fraud_reasons,
                   risk_score, velVars, ai, ai_path, recVars, status_code>>

\* the response is sent and the worker returns to the pool
Finish(t) ==
    /\ pc[t] = "done"
    /\ pc' = [pc EXCEPT ![t] = "idle"]
    /\ user_id' = [user_id EXCEPT ![t] = "anonymous"]
    /\ amount' = [amount EXCEPT ![t] = 0]
    /\ has_card' = [has_card EXCEPT ![t] = FALSE]
    /\ fraud_reasons' = [fraud_reasons EXCEPT ![t] = <<>>]
    /\ risk_score' = [risk_score EXCEPT ![t] = Fl(0)]
    /\ current_time' = [current_time EXCEPT ![t] = 0]
    /\ iter_list' = [iter_list EXCEPT ![t] = <<>>]
    /\ velocity' = [velocity EXCEPT ![t] = NoVelocity]
    /\ ai' = [ai EXCEPT ![t] = NoAI]
    /\ ai_path' = [ai_path EXCEPT ![t] = "none"]
    /\ rec_time' = [rec_time EXCEPT ![t] = 0]
    /\ stale' = [stale EXCEPT ![t] = FALSE]
    /\ status_code' = [status_code EXCEPT ![t] = "OK"]
    /\ response' = [response EXCEPT ![t] = NoResponse]
    /\ UNCHANGED <<transaction_history, envVars, nEvals>>

Step(t) == VelRead(t) \/ VelStore(t) \/ VelCount(t) \/ Assess(t) \/ Record(t) \/ Finish(t)

\* evaluations on concurrent workers
Next == Tick \/ \E t \in Threads : Begin(t) \/ Step(t)

\* the service started without GEMINI_API_KEY (rule-based mode)
ConcInit == Init /\ ~gemini_model

Spec == ConcInit /\ [][Next]_vars

\* evaluations one after another
SeqNext == Tick \/ \E t \in Threads : SeqBegin(t) \/ Step(t)

SeqSpec == Init /\ [][SeqNext]_vars

(* ---------------------- one user, many evaluations --------------------- *)

\* the requests of the race specification: one user's well-formed 99.99
RaceRequests == {req \in ConcRequests :
                   req.user_id = "test-user" /\ req.amount.units = 99}

\* the history of a user with velocity_threshold - 1 accepted transactions
\* of 99.99 recorded at time now
AlmostFull(now) == [i \in 1..(velocity_threshold - 1) |-> <<now, 9999>>]

\* a rule-based service whose user test-user has velocity_threshold - 1
\* events of the last minute and no evaluation running; the pool serves
\* requests with one worker or with every modelled worker
RaceInit ==
    /\ transaction_history =
          [u \in Users |-> IF u = "test-user" THEN AlmostFull(StartTime) ELSE <<>>]
    /\ gemini_model = FALSE
    /\ clock = StartTime
    /\ nTicks = 0
    /\ InitWorkers
    /\ max_workers \in {1, NumThreads}
    /\ call = NoCall

\* a worker of the pool takes a request
RaceBegin(t) ==
    /\ t <= max_workers
    /\ nEvals < RaceMaxEvals
    /\ \E req \in RaceRequests, now \in Nows : BeginEval(t, req, now)

RaceNext == Tick \/ \E t \in Threads : RaceBegin(t) \/ Step(t)

RaceSpec == RaceInit /\ [][RaceNext]_vars

(* ------------------- two users, every kind of outcome ------------------ *)

\* the requests of the two-user specification: accepted (99.99 with a good
\* card), rejected (1000.00), and raising (no amount, or no credit card)
FrameRequests == {req \in Requests :
                    /\ ~req.amount.present \/ req.amount.units \in {99, 1000}
                    /\ req.credit_card = NoCard
                         \/ (req.credit_card.number = GoodNumber
                               /\ req.credit_card.year = 2030)}

\* a rule-based service with no evaluation running; each user has had two
\* transactions of 99.99 accepted: one recorded a minute ago, and one checked
\* before that minute was over and recorded just now
FrameInit ==
    /\ transaction_history = [u \in Users |-> << <<StartTime - VelocityWindow, 9999>>,
                                                  <<StartTime, 9999>> >>]
    /\ gemini_model = FALSE
    /\ clock = StartTime
    /\ nTicks = 0
    /\ InitWorkers
    /\ max_workers = NumThreads
    /\ call = NoCall

\* any worker may take a request while others are running
FrameBegin(t) ==
    /\ nEvals < FrameMaxEvals
    /\ \E req \in FrameRequests : \E now \in {n \in Nows : n.year = 2026} :
          BeginEval(t, req, now)

\* the evaluations of the two-user specification run at one reading of the
\* clock
FrameNext == \E t \in Threads : FrameBegin(t) \/ Step(t)

FrameSpec == FrameInit /\ [][FrameNext]_vars

(* ----------------------- calls of the check methods -------------------- *)

\* card numbers passing the checksum, of 13, 16 and 19 digits (the shortest
\* and longest accepted lengths), and of the 12 and 20 digits just outside
Number13 == <<"4","2","2","2","2","2","2","2","2","2","2","2","2">>
Number19 == <<"5","0","1","8","9","3","7","2","4","6","5","0","9","1","8","2","7","3","3">>
Number12 == <<"4","9","1","7","6","1","0","5","3","8","2","7">>
Number20 == <<"4","5","3","2","0","1","5","1","1","2","8","3","0","3","6","6","1","2","3","0">>
LuhnBases == {Number13, GoodNumber, Number19}

\* the digit strings that differ from number in exactly one digit
OneDigitChanges(number) ==
    {[number EXCEPT ![i] = d] : i \in 1..Len(number), d \in DigitChars} \ {number}

\* the numbers validate is called with
NumberInputs ==
    LuhnBases \cup {Number12, Number20, BadNumber}
              \cup UNION {OneDigitChanges(b) : b \in LuhnBases}

\* datetime.now() of a direct call: during November 2026, at its first
\* instant, and during January 2026
CallNows == { [year |-> 2026, month |-> 11, first_instant |-> FALSE],
              [year |-> 2026, month |-> 11, first_instant |-> TRUE],
              [year |-> 2026, month |-> 1, first_instant |-> FALSE] }

\* the cards _validate_credit_card is called with: every number with one
\* expiration, and one good number with expirations around now
CardInputs ==
    {[present |-> TRUE, number |-> n, month |-> 12, year |-> 2030] : n \in NumberInputs}
    \cup {[present |-> TRUE, number |-> GoodNumber, month |-> m, year |-> y] :
             m \in 0..13, y \in {0, 2025, 2026, 2027}}
    \cup {NoCard}

\* the amounts _check_amount_fraud is called with, in cents: every multiple
\* of 500.00 up to 10,500.00 and the cent below and above it
AmountInputs == {k * 50000 + d : k \in 0..21, d \in {-1, 0, 1}} \cup {-10000, 9999}

CardCalls ==
    {[fn |-> "_validate_credit_card", amount |-> 0, credit_card |-> c, now |-> n,
      returned |-> FALSE, result |-> <<FALSE, "">>] : c \in CardInputs, n \in CallNows}
AmountCalls ==
    {[fn |-> "_check_amount_fraud", amount |-> a, credit_card |-> NoCard,
      now |-> NoCall.now, returned |-> FALSE, result |-> <<FALSE, "">>] :
        a \in AmountInputs}

\* a service object on which one check method is going to be called
CallInit ==
    /\ InitService
    /\ max_workers = NumThreads
    /\ call \in CardCalls \cup AmountCalls

evalVars == <<transaction_history, nEvals, pc, user_id, amount, has_card,
              fraud_reasons, risk_score, velVars, ai, ai_path, recVars, status_code,
              response>>

\* service._validate_credit_card(credit_card) returns
CallValidateCard ==
    /\ call.fn = "_validate_credit_card" /\ ~call.returned
    /\ call' = [call EXCEPT !.returned = TRUE,
                            !.result = validate_credit_card(call.credit_card, call.now)]
    /\ UNCHANGED <<evalVars, gemini_model, clock, nTicks, max_workers>>

\* service._check_amount_fraud(amount) returns
CallCheckAmount ==
    /\ call.fn = "_check_amount_fraud" /\ ~call.returned
    /\ call' = [call EXCEPT !.returned = TRUE,
                            !.result = check_amount_fraud(call.amount)]
    /\ UNCHANGED <<evalVars, gemini_model, clock, nTicks, max_workers>>

CallNext == CallValidateCard \/ CallCheckAmount

CallSpec == CallInit /\ [][CallNext]_vars

(* ------------------------------ properties ----------------------------- *)

\* worker t returns its response in this step
Completes(t) == pc[t] # "done" /\ pc'[t] = "done"

\* list h2 is list h with one event of amount amt appended
AppendedOne(h, h2, amt) ==
    /\ Len(h2) = Len(h) + 1
    /\ SubSeq(h2, 1, Len(h)) = h
    /\ h2[Len(h2)][2] = amt

\* no event of list h2 is new with respect to list h
NoEventAdded(h, h2) ==
    /\ Len(h2) <= Len(h)
    /\ \A i \in 1..Len(h2) : \E j \in 1..Len(h) : h2[i] = h[j]

\* C1: with evaluations one after another, an evaluation that returns
\* is_fraud = false appends exactly one event carrying its amount to its
\* user's history and touches no other history, an evaluation that returns
\* is_fraud = true appends nothing, and no other step adds an event
C1_RecordedIffNotFraud ==
    [][/\ \A t \in Threads :
            /\ (Completes(t) /\ ~response'[t].is_fraud) =>
                  /\ AppendedOne(transaction_history[user_id[t]],
                                 transaction_history'[user_id[t]], amount[t])
                  /\ \A u \in Users \ {user_id[t]} :
                        transaction_history'[u] = transaction_history[u]
            /\ (Completes(t) /\ response'[t].is_fraud) =>
                  transaction_history' = transaction_history
       /\ \A u \in Users :
              ~NoEventAdded(transaction_history[u], transaction_history'[u]) =>
                 \E t \in Threads : Completes(t) /\ ~response'[t].is_fraud
                                        /\ user_id[t] = u]_vars

\* an accepted transaction was recorded behind an earlier accepted one
C1_Witness ==
    \E t \in Threads :
        /\ pc[t] = "done" /\ ~response[t].is_fraud
        /\ Len(transaction_history[user_id[t]]) >= 2
        /\ transaction_history[user_id[t]][Len(transaction_history[user_id[t]])][2]
              = amount[t]

\* C2: an evaluation that returns without an internal error has
\* is_fraud = (risk_score > 0.7) or (a card, amount or velocity reason was
\* accumulated); a suspicious amount alone is fraud
C2_FraudDecision ==
    \A t \in Threads :
        (pc[t] = "done" /\ status_code[t] = "OK") =>
            /\ response[t].is_fraud =
                  (FGt(response[t].risk_score, Fl(700)) \/ Len(fraud_reasons[t]) > 0)
            /\ (fraud_reasons[t] = <<"Suspicious amount pattern: $1000.00">>) =>
                  response[t].is_fraud

\* fraud was decided by a rule alone: the score is not above 0.7
C2_Witness ==
    \E t \in Threads :
        /\ pc[t] = "done" /\ status_code[t] = "OK"
        /\ response[t].is_fraud
        /\ ~FGt(response[t].risk_score, Fl(700))
        /\ fraud_reasons[t] = <<"Suspicious amount pattern: $1000.00">>

\* C3: an evaluation in which an exception is raised returns exactly
\* is_fraud = true, risk_score = 1.0 and the system-error reason, and adds
\* no event to any history: not in the step that returns, and not in any
\* earlier step of an evaluation that is going to raise
C3_FailClosed ==
    [][/\ \A t \in Threads :
            (pc'[t] = "done" /\ status_code'[t] = "INTERNAL") =>
               /\ response'[t] =
                     [is_fraud |-> TRUE, risk_score |-> Fl(1000),
                      reason |-> "System error - transaction blocked for safety"]
               /\ (Completes(t) => transaction_history' = transaction_history)
       /\ (\E t \in Threads : pc[t] \in {"velocity", "prune", "count", "ai"}
                                  /\ ~has_card[t]) =>
              \A u \in Users :
                 NoEventAdded(transaction_history[u], transaction_history'[u])]_vars

\* an exception was raised after the velocity check, for a user with history
C3_Witness ==
    \E t \in Threads :
        /\ pc[t] = "done" /\ status_code[t] = "INTERNAL"
        /\ velocity[t] # NoVelocity
        /\ Len(transaction_history[user_id[t]]) > 0

\* C4: when the assessor is absent or its call raises, the evaluation does
\* not take the error path, the contribution is (0.0, "AI assessment not
\* available") or (0.0, "AI assessment failed"), and the score, the decision
\* and the response are those of the rule checks alone
C4_AssessorFallback ==
    [][\A t \in Threads :
          LET msg == IF ai_path'[t] = "absent" THEN "AI assessment not available"
                     ELSE "AI assessment failed"
              fired == Len(fraud_reasons[t]) > 0
          IN /\ (pc[t] = "ai" /\ pc'[t] # "ai" /\ ai_path'[t] \in {"absent", "raised"}) =>
                   /\ status_code'[t] = "OK"
                   /\ ai'[t] = <<Fl(0), msg>>
                   /\ risk_score'[t] = (IF risk_score[t].v > 1000 THEN Fl(1000)
                                         ELSE risk_score[t])
                   /\ pc'[t] = (IF fired THEN "done" ELSE "record")
             /\ (Completes(t) /\ ai_path'[t] \in {"absent", "raised"}) =>
                   response'[t] =
                     [is_fraud |-> fired, risk_score |-> risk_score'[t],
                      reason |-> IF fired THEN Join(fraud_reasons[t]) ELSE msg]]_vars

\* the assessor raised and the transaction was accepted by the rules
C4_Witness ==
    \E t \in Threads :
        /\ pc[t] = "done" /\ ai_path[t] = "raised"
        /\ response[t] = [is_fraud |-> FALSE, risk_score |-> Fl(0),
                           reason |-> "AI assessment failed"]

\* the velocity check of worker t has returned
VelocityChecked(t) == velocity[t] # NoVelocity

\* the events of list h that lie within the last 60 seconds of time now
InLastMinute(h, now) == {i \in 1..Len(h) : now - h[i][1] < 60}

\* C5: when the count rule does not fire and the amounts of the user's
\* recorded events newer than now - 24h plus the proposed amount exceed
\* 50,000, the velocity check reports suspicious with the daily-limit reason
\* carrying that sum (recorded events are those found when the check started)
C5_DailyLimit ==
    \A t \in Threads :
        LET sum == DailySpending(iter_list[t], amount[t], current_time[t])
        IN (/\ VelocityChecked(t)
            /\ Cardinality(InLastMinute(iter_list[t], current_time[t])) < 5
            /\ sum > 5000000) =>
               velocity[t] = <<TRUE, DailyMsg(sum)>>

\* C6: the pruning of the velocity check removes no event newer than
\* now - 24h from the user's history
C6_PruneKeepsDailyWindow ==
    [][\A t \in Threads :
          (pc[t] = "prune" /\ pc'[t] = "count") =>
             \A i \in 1..Len(transaction_history[user_id[t]]) :
                LET e == transaction_history[user_id[t]][i]
                IN e[1] > current_time[t] - 86400 =>
                     \E j \in 1..Len(transaction_history'[user_id[t]]) :
                        transaction_history'[user_id[t]][j] = e]_vars

\* C7: the velocity check reports suspicious with the count-based reason
\* "Too many transactions: N in last minute" if and only if the user has at
\* least 5 recorded events within the last 60 seconds (N is their number);
\* a user without history proposing an amount within the daily limit is not
\* suspicious
C7_VelocityCount ==
    \A t \in Threads :
        VelocityChecked(t) =>
            LET n == Cardinality(InLastMinute(iter_list[t], current_time[t]))
            IN /\ (velocity[t] = <<TRUE, TooManyMsg(n)>>) <=> (n >= 5)
               /\ n < 5 => \A k \in 0..Len(iter_list[t]) : velocity[t][2] # TooManyMsg(k)
               /\ (iter_list[t] = <<>> /\ amount[t] <= 5000000) =>
                     velocity[t] = <<FALSE, "Velocity check passed">>

\* the count rule fired on five events of the last minute
C7_Witness ==
    \E t \in Threads :
        /\ velocity[t] = <<TRUE, "Too many transactions: 5 in last minute">>
        /\ Cardinality(InLastMinute(iter_list[t], current_time[t])) = 5

\* C8: the risk_score of every returned decision lies in [0.0, 1.0]
C8_ScoreInRange ==
    \A t \in Threads :
        pc[t] = "done" =>
            /\ ~response[t].risk_score.nan
            /\ response[t].risk_score.v >= 0
            /\ response[t].risk_score.v <= 1000

\* the number of occurrences of event e in list h
Count(e, h) == Cardinality({i \in 1..Len(h) : h[i] = e})

\* the events that occur in list h or list h2
EventsOf(h, h2) == {h[i] : i \in 1..Len(h)} \cup {h2[i] : i \in 1..Len(h2)}

\* C9: under any interleaving, the append of an accepted evaluation adds its
\* event to the user's history exactly once, and an event leaves a history
\* only when a check prunes it for age (it is 60 seconds old or older at the
\* time of that check)
C9_NoLostNoDuplicate ==
    [][\A t \in Threads :
          /\ (pc[t] = "record" /\ pc'[t] = "done") =>
                LET e == <<rec_time[t], amount[t]>>
                IN Count(e, transaction_history'[user_id[t]])
                     = Count(e, transaction_history[user_id[t]]) + 1
          /\ (pc[t] = "prune" /\ pc'[t] = "count") =>
                \A e \in EventsOf(transaction_history[user_id[t]],
                                  transaction_history'[user_id[t]]) :
                   IF current_time[t] - e[1] >= 60
                   THEN Count(e, transaction_history'[user_id[t]]) = 0
                   ELSE Count(e, transaction_history'[user_id[t]])
                          = Count(e, transaction_history[user_id[t]])]_vars

\* list h is in non-decreasing timestamp order
TimeOrdered(h) == \A i \in 1..Len(h) : \A j \in i..Len(h) : h[i][1] <= h[j][1]

\* C10: in every reachable state the events of each user's history are in
\* non-decreasing timestamp order
C10_TimeOrdered == \A u \in Users : TimeOrdered(transaction_history[u])

\* a velocity check on user u's history is between its read and its count
CheckRunning(u) == \E o \in Threads : pc[o] \in {"prune", "count"} /\ user_id[o] = u

\* C11: record operations of simultaneous evaluations of one user, with no
\* check running, each add exactly their own event (none is lost) and leave
\* the user's history in timestamp order
C11_SimultaneousRecords ==
    [][\A t \in Threads :
          (/\ pc[t] = "record" /\ pc'[t] = "done"
           /\ ~stale[t] /\ ~CheckRunning(user_id[t])) =>
              /\ AppendedOne(transaction_history[user_id[t]],
                             transaction_history'[user_id[t]], amount[t])
              /\ transaction_history'[user_id[t]]
                    [Len(transaction_history'[user_id[t]])][1] = rec_time[t]
              /\ TimeOrdered(transaction_history[user_id[t]]) =>
                    TimeOrdered(transaction_history'[user_id[t]])]_vars

\* a call of method fn has returned
Returned(fn) == call.fn = fn /\ call.returned

\* C12: the amount check reports 'Invalid amount' for an amount <= 0,
\* otherwise 'Amount too high' for an amount strictly above 10,000 (exactly
\* 10,000 is not too high), otherwise 'Suspicious amount pattern' for exactly
\* 9999.99, 5000.00 or 1000.00, and otherwise not suspicious
C12_AmountCheck ==
    Returned("_check_amount_fraud") =>
        LET a == call.amount
        IN IF a <= 0 THEN call.result = <<TRUE, "Invalid amount">>
           ELSE IF a > 1000000
           THEN call.result = <<TRUE, "Amount too high: $" \o Fmt2(a)>>
           ELSE IF a = 999999 \/ a = 500000 \/ a = 100000
           THEN call.result = <<TRUE, "Suspicious amount pattern: $" \o Fmt2(a)>>
           ELSE call.result = <<FALSE, "Amount check passed">>

\* exactly 10,000.00 was checked and is not suspicious
C12_Witness ==
    /\ Returned("_check_amount_fraud")
    /\ call.amount = 1000000
    /\ ~call.result[1]

\* C13: for a card that passes the length and Luhn checks, an expiration
\* month strictly before the month of now gives invalid with 'Credit card
\* expired', and an expiration in the month of now or a later month gives
\* valid
C13_Expiry ==
    (/\ Returned("_validate_credit_card")
     /\ call.credit_card.number = GoodNumber
     /\ call.credit_card.month \in 1..12
     /\ call.credit_card.year \in 2025..2027) =>
        LET c == call.credit_card
            past == \/ c.year < call.now.year
                    \/ c.year = call.now.year /\ c.month < call.now.month
        IN IF past THEN call.result = <<FALSE, "Credit card expired">>
           ELSE call.result[1]

\* the digit at position p from the right of a doubled value is its digit sum
RefDigit(d, p) == IF p % 2 = 1 THEN d ELSE ((2 * d) \div 10) + ((2 * d) % 10)

RECURSIVE RefSum(_, _)
\* the checksum of the p rightmost digits of number
RefSum(number, p) ==
    IF p = 0 THEN 0
    ELSE RefDigit(DigitVal(number[Len(number) + 1 - p]), p) + RefSum(number, p - 1)

\* number satisfies the Luhn checksum
ChecksumOK(number) == RefSum(number, Len(number)) % 10 = 0

\* C14: a digit string of length 13..19 that satisfies the Luhn checksum is
\* accepted by the card validation, and a string obtained from such a string
\* by changing exactly one digit is rejected with 'Invalid credit card number'
C14_Luhn ==
    (/\ Returned("_validate_credit_card")
     /\ call.credit_card.present
     /\ Len(call.credit_card.number) \in 13..19
     /\ call.credit_card.year = 2030) =>
        LET n == call.credit_card.number
        IN /\ ChecksumOK(n) => call.result = <<TRUE, "Valid">>
           /\ (\E b \in LuhnBases : ChecksumOK(b) /\ n \in OneDigitChanges(b)) =>
                 call.result = <<FALSE, "Invalid credit card number">>

\* a 19-digit number with its last digit changed was rejected
C14_Witness ==
    /\ Returned("_validate_credit_card")
    /\ call.credit_card.number = [Number19 EXCEPT ![19] = "4"]
    /\ call.result = <<FALSE, "Invalid credit card number">>

\* evaluation t has returned a decision on the normal path
Decided(t) == pc[t] = "done" /\ status_code[t] = "OK"

\* the reasons the card validation gives for an invalid card
CardMessages == {"Missing credit card number", "Invalid credit card number length",
                 "Invalid credit card number", "Invalid expiration month",
                 "Invalid expiration date", "Credit card expired"}

\* the card rule fired in evaluation t
CardFired(t) == Len(fraud_reasons[t]) > 0 /\ fraud_reasons[t][1] \in CardMessages

\* 0.8 * [card invalid] + 0.6 * [amount suspicious] + 0.7 * [velocity suspicious]
RuleScore(t) == (IF CardFired(t) THEN 800 ELSE 0)
                + (IF check_amount_fraud(amount[t])[1] THEN 600 ELSE 0)
                + (IF velocity[t][1] THEN 700 ELSE 0)

\* C15: the returned risk_score is min(1.0, 0.8*[card invalid] +
\* 0.6*[amount suspicious] + 0.7*[velocity suspicious] + 0.3*ai_score), and
\* every transaction with an invalid card gets is_fraud = true and a
\* risk_score above 0.7 with the card message first in the reason, whatever
\* the AI score
C15_RiskScore ==
    \A t \in Threads :
        Decided(t) =>
            LET sum == RuleScore(t) + (ai[t][1].v * 3) \div 10
            IN /\ ~ai[t][1].nan =>
                     response[t].risk_score = Fl(IF sum > 1000 THEN 1000 ELSE sum)
               /\ CardFired(t) =>
                     /\ response[t].is_fraud
                     /\ FGt(response[t].risk_score, Fl(700))
                     /\ response[t].reason = Join(fraud_reasons[t])

\* C16: the returned reason is the reasons of the rules that fired, joined
\* with "; " in the order card, amount, velocity, when at least one rule
\* fired (the AI reason is not shown), and it is the AI reason exactly when no
\* rule fired
C16_Reason ==
    \A t \in Threads :
        Decided(t) =>
            LET c == SelectSeq(fraud_reasons[t], LAMBDA m : m \in CardMessages)
                a == check_amount_fraud(amount[t])
                v == velocity[t]
                rules == c \o (IF a[1] THEN <<a[2]>> ELSE <<>>)
                           \o (IF v[1] THEN <<v[2]>> ELSE <<>>)
            IN /\ Len(c) <= 1
               /\ fraud_reasons[t] = rules
               /\ response[t].reason =
                     CASE Len(rules) = 0 -> ai[t][2]
                       [] Len(rules) = 1 -> rules[1]
                       [] Len(rules) = 2 -> rules[1] \o "; " \o rules[2]
                       [] Len(rules) = 3 -> rules[1] \o "; " \o rules[2]
                                                      \o "; " \o rules[3]
               /\ (response[t].reason = ai[t][2]) <=> (Len(rules) = 0)

\* the card, the amount and the velocity rule fired in one evaluation
C16_Witness ==
    \E t \in Threads :
        /\ Decided(t)
        /\ response[t].reason = "Invalid credit card number; "
              \o "Suspicious amount pattern: $1000.00; "
              \o "Too many transactions: 5 in last minute"

\* worker t is inside an access to its user's history: the prune-and-count
\* of the velocity check (from the read of the list to the count) or the
\* append of the record (from the load of the list to the append)
InHistory(t) == pc[t] \in {"prune", "count", "record"}

\* C17: in no reachable state are two evaluations of the same user inside
\* an access to that user's history at the same time
C17_Serialized ==
    \A t \in Threads : \A o \in Threads \ {t} :
        (InHistory(t) /\ InHistory(o)) => user_id[t] # user_id[o]

\* C19: the event an accepted evaluation records carries the timestamp its
\* velocity check used (current_time), not an instant read later
C19_RecordedTimestamp ==
    [][\A t \in Threads :
          (pc[t] = "record" /\ pc'[t] = "done") =>
             /\ Len(transaction_history'[user_id[t]]) > 0
             /\ transaction_history'[user_id[t]]
                   [Len(transaction_history'[user_id[t]])]
                     = <<current_time[t], amount[t]>>]_vars

\* evaluation t, the last to run, has recorded its transaction
Recorded(t) ==
    LET h == transaction_history[user_id[t]]
    IN Len(h) > 0 /\ h[Len(h)] = <<rec_time[t], amount[t]>>

\* C20: the AI assessment alone never blocks: a decision with no rule fired
\* has risk_score <= 0.3 and is_fraud = false, a decision has is_fraud = true
\* if and only if a rule reason was accumulated, and the transaction is
\* recorded if and only if no rule fired
C20_AINeverBlocks ==
    \A t \in Threads :
        Decided(t) =>
            /\ Len(fraud_reasons[t]) = 0 =>
                  /\ ~response[t].risk_score.nan
                  /\ response[t].risk_score.v <= 300
                  /\ ~response[t].is_fraud
            /\ response[t].is_fraud <=> Len(fraud_reasons[t]) > 0
            /\ Recorded(t) <=> Len(fraud_reasons[t]) = 0

\* C18: served by one worker, an evaluation that finds velocity_threshold
\* events of the last minute is rejected by the count rule and no history
\* ever holds more than velocity_threshold events of the last minute; served
\* by concurrent workers, two evaluations that both read
\* velocity_threshold - 1 events before either records both pass and are
\* both recorded (C18_Witness)
C18_SequentialRejects ==
    max_workers = 1 =>
        /\ \A u \in Users : Len(Prune(transaction_history[u], clock)) <= 5
        /\ \A t \in Threads :
              (Decided(t) /\ Len(Prune(iter_list[t], current_time[t])) >= 5) =>
                  /\ response[t].is_fraud
                  /\ velocity[t] = <<TRUE, TooManyMsg(Len(Prune(iter_list[t],
                                                               current_time[t])))>>

\* two concurrent evaluations each counted four events of the last minute,
\* both were accepted and recorded: six events of the last minute
C18_Witness ==
    /\ max_workers > 1
    /\ \E t \in Threads : \E o \in Threads \ {t} : \A w \in {t, o} :
          /\ Decided(w) /\ ~response[w].is_fraud
          /\ user_id[w] = "test-user"
          /\ Len(Prune(iter_list[w], current_time[w])) = 4
    /\ Len(Prune(transaction_history["test-user"], clock)) = 6

\* the events of list h whose timestamp lies in the 60 seconds that start at ts
InSpan(h, ts) == {i \in 1..Len(h) : h[i][1] >= ts /\ h[i][1] < ts + 60}

\* C21: with the evaluations run one after another and a clock that never
\* goes back, no user's history ever holds more than velocity_threshold (5)
\* events, and at most 5 of its events have timestamps within any 60-second
\* span
C21_VelocityEnforced ==
    \A u \in Users :
        LET h == transaction_history[u]
        IN /\ Len(h) <= 5
           /\ \A i \in 1..Len(h) : Cardinality(InSpan(h, h[i][1])) <= 5

\* a sixth transaction within a minute was rejected by the count rule and
\* the user's history holds five events
C21_Witness ==
    \E t \in Threads :
        /\ Decided(t) /\ response[t].is_fraud
        /\ velocity[t] = <<TRUE, "Too many transactions: 5 in last minute">>
        /\ Len(transaction_history[user_id[t]]) = 5
        /\ Cardinality(InSpan(transaction_history[user_id[t]],
                              transaction_history[user_id[t]][1][1])) = 5

\* C22: under any interleaving and whatever the outcome of the evaluation
\* (accepted, rejected, internal error), a step changes the history of a
\* user only if it is the prune or the append of an evaluation of that user
C22_OtherUsersUntouched ==
    [][\A u \in Users :
          transaction_history'[u] # transaction_history[u] =>
             \E t \in Threads :
                /\ user_id[t] = u
                /\ \/ pc[t] = "prune" /\ pc'[t] = "count"
                   \/ pc[t] = "record" /\ pc'[t] = "done"
                /\ \A o \in Threads \ {t} : pc'[o] = pc[o]]_vars

\* an evaluation of one user has pruned that user's history and then raised
\* while an evaluation of the other user, who has history, is about to append
C22_Witness ==
    \E t \in Threads : \E o \in Threads \ {t} :
        /\ user_id[t] # user_id[o]
        /\ pc[t] = "done" /\ status_code[t] = "INTERNAL" /\ VelocityChecked(t)
        /\ transaction_history[user_id[t]] = <<<<StartTime, 9999>>>>
        /\ pc[o] = "record"
        /\ Len(transaction_history[user_id[o]]) > 0

====
